---- MODULE Spec2Model ----
(***************************************************************************)
(* odlpet: STIR projector pair (stir/bindings.py), scanner geometry        *)
(* (scanner/scanner.py) and axial compression (scanner/compression.py).    *)
(*                                                                         *)
(* Two state machines share this module:                                   *)
(*   Spec      the projector pair: the two wrapper constructors, executed  *)
(*             statement group by statement group on a Python call stack,  *)
(*             and the two _call methods under StirVerbosity;              *)
(*   SpecScan  scanner geometry construction and the compression session.  *)
(***************************************************************************)
EXTENDS Integers, Sequences, FiniteSets, TLC

VARIABLES
    objs,       \* heap of operator wrappers (index = object identity)
    matrices,   \* engine: stir.ProjMatrixByBinUsingRayTracing objects
    eprojs,     \* engine: Forward/BackProjectorByBinUsingProjMatrixByBin objects
    stack,      \* Python call stack of running __init__ frames (outermost first)
    top,        \* the caller's view of the current / last top-level constructor call
    held,       \* wrappers returned to the caller so far
    nCalls,     \* number of top-level constructor calls made
    verbosity,  \* stir.Verbosity (process-wide)
    volBuf,     \* contents of each stir volume handle
    projBuf,    \* contents of each stir ProjData handle
    calls,      \* per thread: the running / last apply (Operator.__call__ -> _call)
    scanner,    \* the Scanner object a compression session owns
    comp,       \* the Compression object (compression session)
    out         \* result of the last scanner / compression operation

pairVars == <<objs, matrices, eprojs, stack, top, held, nCalls, verbosity,
              volBuf, projBuf, calls>>
scanVars == <<scanner, comp, out>>
vars == <<objs, matrices, eprojs, stack, top, held, nCalls, verbosity,
          volBuf, projBuf, calls, scanner, comp, out>>

(***************************************************************************)
(* Bounds                                                                  *)
(***************************************************************************)
MaxCtorCalls == 1   \* top-level constructor calls per run
MaxVerbosity == 1   \* verbosity levels 0..MaxVerbosity
MaxVal == 1         \* caller arrays are abstracted to one value 0..MaxVal
MaxRings == 4       \* custom scanners have 1..MaxRings rings (mCT has its own 8)
MaxSpanHalf == 2    \* spans 1, 3, .., 2*MaxSpanHalf+1

(***************************************************************************)
(* Python values: references to objects, None, and "attribute not set".    *)
(***************************************************************************)
Ref(t, i) == [t |-> t, id |-> i]
None == Ref("none", 0)
Unset == Ref("unset", 0)
WrapperRef(i) == Ref("wrapper", i)
IsWrapper(v) == v.t = "wrapper"

\* volume handles and projection-data handles, and what shape() reports
VolIds == {1}
ProjIds == {1}
VolShape(v) == <<5, 4, 4>>
ProjShape(p) == <<15, 4, 4>>
DomainShapes == {<<4, 4, 4>>, <<5, 4, 4>>}
RangeShapes == {<<15, 4, 4>>, <<9, 4, 4>>}

Verbosities == 0 .. MaxVerbosity
Threads == {1, 2}
Vals == 0 .. MaxVal
Modulus == 2 * MaxVal + 3

NoErr == [type |-> "none", a |-> <<>>, b |-> <<>>]
Err(type, a, b) == [type |-> type, a |-> a, b |-> b]

(***************************************************************************)
(* Heap objects and constructor frames                                     *)
(***************************************************************************)
\* a wrapper as object.__new__ leaves it: no attribute set yet
NewWrapper(cls) ==
    [cls |-> cls, verbosity |-> -1, inited |-> FALSE,
     domain |-> <<>>, range |-> <<>>, vol |-> 0, pd |-> 0,
     proj_data_info |-> Unset, proj_matrix |-> Unset,
     projector |-> Unset, adjoint |-> Unset]

\* ForwardProjectorByBinWrapper.__init__(self, domain, range, volume, proj_data,
\*     _proj_info=None, projector=None, adjoint=None, verbosity=0):
\* the frame of a call with the arguments bound in this (positional) order
ForwardFrame(self, domain, range, volume, proj_data, p_info, p_projector, p_adjoint, p_verbosity) ==
    [cls |-> "F", self |-> self, pc |-> "check1",
     domain |-> domain, range |-> range, vol |-> volume, pd |-> proj_data,
     a_info |-> p_info, a_proj |-> p_projector, a_adj |-> p_adjoint,
     a_verb |-> p_verbosity, l_proj |-> Unset, l_mat |-> Unset]

\* BackProjectorByBinWrapper.__init__(self, domain, range, volume, proj_data,
\*     back_projector=None, adjoint=None, verbosity=0)
BackFrame(self, domain, range, volume, proj_data, p_back_projector, p_adjoint, p_verbosity) ==
    [cls |-> "B", self |-> self, pc |-> "check1",
     domain |-> domain, range |-> range, vol |-> volume, pd |-> proj_data,
     a_info |-> None, a_proj |-> p_back_projector, a_adj |-> p_adjoint,
     a_verb |-> p_verbosity, l_proj |-> Unset, l_mat |-> Unset]

Depth == Len(stack)
Cur == stack[Depth]
Self == Cur.self
Running(cls, pc) == Depth > 0 /\ Cur.cls = cls /\ Cur.pc = pc

Goto(pc) == stack' = [stack EXCEPT ![Depth].pc = pc]

\* engine objects made during the current top-level call are counted in top
Made(dMat, dProj) == [top EXCEPT !.nMat = @ + dMat, !.nProj = @ + dProj]

\* an exception leaves every running constructor (no frame catches it); the
\* objects the call created were referenced by its frames only and are freed
Raise(e, dMat, dProj) ==
    /\ stack' = <<>>
    /\ top' = [Made(dMat, dProj) EXCEPT !.status = "raised", !.err = e]
    /\ objs' = SubSeq(objs, 1, top.obj0)
    /\ matrices' = SubSeq(matrices, 1, top.mat0)
    /\ eprojs' = SubSeq(eprojs, 1, top.proj0)

\* engine objects
NewMatrix(symmetries, isSetUp) ==
    [symmetries |-> symmetries, num_tangential_LORs |-> 1, set_up |-> isSetUp]
NewEngineProjector(kind, matrix, isSetUp) ==
    [kind |-> kind, matrix |-> matrix, set_up |-> isSetUp]

\* no apply made yet on a thread (old: StirVerbosity.old_verbosity, -1 for None;
\* overlap: history, whether the apply ran while another thread's apply was running)
ApplyIdle == [pc |-> "idle", o |-> 0, x |-> 0, old |-> -1, res |-> -1, ret |-> -1,
              v0 |-> -1, err |-> NoErr, pending |-> NoErr, overlap |-> FALSE]

(***************************************************************************)
(* Top-level constructor calls made by the caller                          *)
(***************************************************************************)
NoApplyRunning == \A t \in DOMAIN calls : calls[t].pc \in {"idle", "returned", "raised"}
CallerIdle == Depth = 0 /\ NoApplyRunning

StartTop(cls, domain, range, volume, proj_data, projGiven, adjGiven) ==
    top' = [cls |-> cls, domain |-> domain, range |-> range, vol |-> volume,
            pd |-> proj_data, projGiven |-> projGiven, adjGiven |-> adjGiven,
            status |-> "running", ret |-> None, err |-> NoErr, self |-> Len(objs) + 1,
            obj0 |-> Len(objs), mat0 |-> Len(matrices), proj0 |-> Len(eprojs),
            nMat |-> 0, nProj |-> 0]

EngineProjectors(kind) == {Ref("eproj", i) : i \in {j \in DOMAIN eprojs : eprojs[j].kind = kind}}
HeldWrappers(cls) == {WrapperRef(i) : i \in {j \in held : objs[j].cls = cls}}

CallForward ==
    /\ CallerIdle /\ nCalls < MaxCtorCalls
    /\ \E domain \in DomainShapes, range \in RangeShapes, v \in VolIds, p \in ProjIds,
          projector \in {None} \cup EngineProjectors("fwd"),
          adjoint \in {None} \cup HeldWrappers("B"),
          verb \in Verbosities :
        /\ objs' = Append(objs, NewWrapper("F"))
        /\ stack' = <<ForwardFrame(Len(objs) + 1, domain, range, v, p,
                                   None, projector, adjoint, verb)>>
        /\ StartTop("F", domain, range, v, p, projector /= None, adjoint /= None)
    /\ nCalls' = nCalls + 1
    /\ calls' = [t \in Threads |-> ApplyIdle]
    /\ UNCHANGED <<matrices, eprojs, held, verbosity, volBuf, projBuf>>
    /\ UNCHANGED scanVars

CallBack ==
    /\ CallerIdle /\ nCalls < MaxCtorCalls
    /\ \E domain \in RangeShapes, range \in DomainShapes, v \in VolIds, p \in ProjIds,
          back_projector \in {None} \cup EngineProjectors("back"),
          adjoint \in {None} \cup HeldWrappers("F"),
          verb \in Verbosities :
        /\ objs' = Append(objs, NewWrapper("B"))
        /\ stack' = <<BackFrame(Len(objs) + 1, domain, range, v, p,
                                back_projector, adjoint, verb)>>
        /\ StartTop("B", domain, range, v, p, back_projector /= None, adjoint /= None)
    /\ nCalls' = nCalls + 1
    /\ calls' = [t \in Threads |-> ApplyIdle]
    /\ UNCHANGED <<matrices, eprojs, held, verbosity, volBuf, projBuf>>
    /\ UNCHANGED scanVars

(***************************************************************************)
(* ForwardProjectorByBinWrapper.__init__                                   *)
(***************************************************************************)
otherVars == <<held, nCalls, verbosity, volBuf, projBuf, calls>>

\* faulty variant: only the number of axes is compared
ShapeDiffers_ndim(spaceShape, handleShape) == Len(spaceShape) /= Len(handleShape)

\* the comparison of the two "Check data sizes" tests
ShapeDiffers(spaceShape, handleShape) == spaceShape /= handleShape

\* lines 87-91: self.verbosity = verbosity; domain.shape against volume.shape()
Forward_check_domain ==
    /\ Running("F", "check1")
    /\ IF ShapeDiffers(Cur.domain, VolShape(Cur.vol))
       THEN Raise(Err("ValueError", Cur.domain, VolShape(Cur.vol)), 0, 0)
       ELSE /\ objs' = [objs EXCEPT ![Self].verbosity = Cur.a_verb]
            /\ Goto("check2")
            /\ UNCHANGED <<top, matrices, eprojs>>
    /\ UNCHANGED otherVars /\ UNCHANGED scanVars

\* lines 93-96: range.shape against proj_data.to_array().shape()
Forward_check_range ==
    /\ Running("F", "check2")
    /\ IF ShapeDiffers(Cur.range, ProjShape(Cur.pd))
       THEN Raise(Err("ValueError", Cur.range, ProjShape(Cur.pd)), 0, 0)
       ELSE Goto("super") /\ UNCHANGED <<top, objs, matrices, eprojs>>
    /\ UNCHANGED otherVars /\ UNCHANGED scanVars

\* lines 99-107: Operator.__init__, proj_data, proj_data_info, volume
Forward_super ==
    /\ Running("F", "super")
    /\ objs' = [objs EXCEPT ![Self].inited = TRUE,
                            ![Self].domain = Cur.domain,
                            ![Self].range = Cur.range,
                            ![Self].pd = Cur.pd,
                            ![Self].proj_data_info =
                                IF Cur.a_info = None THEN Ref("info", Cur.pd) ELSE Cur.a_info,
                            ![Self].vol = Cur.vol]
    /\ Goto("engine")
    /\ UNCHANGED <<top, matrices, eprojs>>
    /\ UNCHANGED otherVars /\ UNCHANGED scanVars

\* lines 110-118: projector is None: the ray-tracing matrix, its four symmetries,
\* one tangential LOR, set_up (which the engine may fail)
Forward_matrix ==
    /\ Running("F", "engine") /\ Cur.a_proj = None
    /\ \E ok \in BOOLEAN :
        IF ok
        THEN /\ matrices' = Append(matrices, NewMatrix(TRUE, TRUE))
             /\ objs' = [objs EXCEPT ![Self].proj_matrix = Ref("matrix", Len(matrices) + 1)]
             /\ top' = Made(1, 0)
             /\ Goto("projector")
             /\ UNCHANGED eprojs
        ELSE Raise(Err("EngineError", <<>>, <<>>), 1, 0)
    /\ UNCHANGED otherVars /\ UNCHANGED scanVars

\* lines 121-123: the engine forward projector on self.proj_matrix, set_up
Forward_projector ==
    /\ Running("F", "projector")
    /\ \E ok \in BOOLEAN :
        IF ok
        THEN /\ eprojs' = Append(eprojs, NewEngineProjector("fwd", objs[Self].proj_matrix.id, TRUE))
             /\ objs' = [objs EXCEPT ![Self].projector = Ref("eproj", Len(eprojs) + 1)]
             /\ top' = Made(0, 1)
             /\ Goto("backproj")
             /\ UNCHANGED matrices
        ELSE Raise(Err("EngineError", <<>>, <<>>), 0, 1)
    /\ UNCHANGED otherVars /\ UNCHANGED scanVars

\* lines 127-131: if adjoint is None, the engine back projector on the same matrix
Forward_back_projector ==
    /\ Running("F", "backproj")
    /\ IF Cur.a_adj = None
       THEN \E ok \in BOOLEAN :
            IF ok
            THEN /\ eprojs' = Append(eprojs, NewEngineProjector("back", objs[Self].proj_matrix.id, TRUE))
                 /\ stack' = [stack EXCEPT ![Depth].pc = "adjoint",
                                           ![Depth].l_proj = Ref("eproj", Len(eprojs) + 1)]
                 /\ top' = Made(0, 1)
                 /\ UNCHANGED <<objs, matrices>>
            ELSE Raise(Err("EngineError", <<>>, <<>>), 0, 1)
       ELSE Goto("adjoint") /\ UNCHANGED <<objs, matrices, eprojs, top>>
    /\ UNCHANGED otherVars /\ UNCHANGED scanVars

\* lines 132-136: a projector was given
Forward_given ==
    /\ Running("F", "engine") /\ Cur.a_proj /= None
    /\ objs' = [objs EXCEPT ![Self].projector = Cur.a_proj]
    /\ stack' = [stack EXCEPT ![Depth].pc = "adjoint", ![Depth].l_proj = None]
    /\ UNCHANGED <<top, matrices, eprojs>>
    /\ UNCHANGED otherVars /\ UNCHANGED scanVars

\* faulty variant: the back projector built on self.proj_matrix is not handed over
Forward_adjoint_own_matrix ==
    /\ Running("F", "adjoint")
    /\ IF Cur.a_adj = None
       THEN /\ objs' = Append(objs, NewWrapper("B"))
            /\ stack' = Append([stack EXCEPT ![Depth].pc = "wait"],
                               BackFrame(Len(objs) + 1, objs[Self].range, objs[Self].domain,
                                         objs[Self].vol, objs[Self].pd,
                                         None, WrapperRef(Self), 0))
       ELSE /\ objs' = [objs EXCEPT ![Self].adjoint = Cur.a_adj]
            /\ Goto("ret")
    /\ UNCHANGED <<top, matrices, eprojs>>
    /\ UNCHANGED otherVars /\ UNCHANGED scanVars

\* lines 139-144: the adjoint: BackProjectorByBinWrapper(self.range, self.domain,
\* self.volume, self.proj_data, back_projector, self), or the one given
Forward_adjoint ==
    /\ Running("F", "adjoint")
    /\ IF Cur.a_adj = None
       THEN /\ objs' = Append(objs, NewWrapper("B"))
            /\ stack' = Append([stack EXCEPT ![Depth].pc = "wait"],
                               BackFrame(Len(objs) + 1, objs[Self].range, objs[Self].domain,
                                         objs[Self].vol, objs[Self].pd,
                                         Cur.l_proj, WrapperRef(Self), 0))
       ELSE /\ objs' = [objs EXCEPT ![Self].adjoint = Cur.a_adj]
            /\ Goto("ret")
    /\ UNCHANGED <<top, matrices, eprojs>>
    /\ UNCHANGED otherVars /\ UNCHANGED scanVars

(***************************************************************************)
(* BackProjectorByBinWrapper.__init__                                      *)
(***************************************************************************)
\* lines 197-201: self.verbosity = verbosity; range.shape against volume.shape()
Back_check_range ==
    /\ Running("B", "check1")
    /\ IF ShapeDiffers(Cur.range, VolShape(Cur.vol))
       THEN Raise(Err("ValueError", Cur.range, VolShape(Cur.vol)), 0, 0)
       ELSE /\ objs' = [objs EXCEPT ![Self].verbosity = Cur.a_verb]
            /\ Goto("check2")
            /\ UNCHANGED <<top, matrices, eprojs>>
    /\ UNCHANGED otherVars /\ UNCHANGED scanVars

\* lines 203-206: domain.shape against proj_data.to_array().shape(); the message
\* is formatted with range.shape
Back_check_domain ==
    /\ Running("B", "check2")
    /\ IF ShapeDiffers(Cur.domain, ProjShape(Cur.pd))
       THEN Raise(Err("ValueError", Cur.range, ProjShape(Cur.pd)), 0, 0)
       ELSE Goto("super") /\ UNCHANGED <<top, objs, matrices, eprojs>>
    /\ UNCHANGED otherVars /\ UNCHANGED scanVars

\* lines 209-214: Operator.__init__, proj_data, proj_data_info, volume
Back_super ==
    /\ Running("B", "super")
    /\ objs' = [objs EXCEPT ![Self].inited = TRUE,
                            ![Self].domain = Cur.domain,
                            ![Self].range = Cur.range,
                            ![Self].pd = Cur.pd,
                            ![Self].proj_data_info = Ref("info", Cur.pd),
                            ![Self].vol = Cur.vol]
    /\ Goto("engine")
    /\ UNCHANGED <<top, matrices, eprojs>>
    /\ UNCHANGED otherVars /\ UNCHANGED scanVars

\* lines 217-223: back_projector is None: a matrix left as the engine constructs it
\* (a local, no symmetry setters, no set_up) and the engine back projector on it
Back_matrix ==
    /\ Running("B", "engine") /\ Cur.a_proj = None
    /\ \E ok \in BOOLEAN :
        IF ok
        THEN /\ matrices' = Append(matrices, NewMatrix(FALSE, FALSE))
             /\ eprojs' = Append(eprojs, NewEngineProjector("back", Len(matrices) + 1, TRUE))
             /\ objs' = [objs EXCEPT ![Self].projector = Ref("eproj", Len(eprojs) + 1)]
             /\ stack' = [stack EXCEPT ![Depth].pc = "fwdproj",
                                       ![Depth].l_mat = Ref("matrix", Len(matrices) + 1)]
             /\ top' = Made(1, 1)
        ELSE Raise(Err("EngineError", <<>>, <<>>), 1, 1)
    /\ UNCHANGED otherVars /\ UNCHANGED scanVars

\* lines 225-228: if adjoint is None, the engine forward projector on the same matrix
Back_projector ==
    /\ Running("B", "fwdproj")
    /\ IF Cur.a_adj = None
       THEN \E ok \in BOOLEAN :
            IF ok
            THEN /\ eprojs' = Append(eprojs, NewEngineProjector("fwd", Cur.l_mat.id, TRUE))
                 /\ stack' = [stack EXCEPT ![Depth].pc = "adjoint",
                                           ![Depth].l_proj = Ref("eproj", Len(eprojs) + 1)]
                 /\ top' = Made(0, 1)
                 /\ UNCHANGED <<objs, matrices>>
            ELSE Raise(Err("EngineError", <<>>, <<>>), 0, 1)
       ELSE Goto("adjoint") /\ UNCHANGED <<objs, matrices, eprojs, top>>
    /\ UNCHANGED otherVars /\ UNCHANGED scanVars

\* lines 230-232: a back projector was given
Back_given ==
    /\ Running("B", "engine") /\ Cur.a_proj /= None
    /\ objs' = [objs EXCEPT ![Self].projector = Cur.a_proj]
    /\ stack' = [stack EXCEPT ![Depth].pc = "adjoint", ![Depth].l_proj = None]
    /\ UNCHANGED <<top, matrices, eprojs>>
    /\ UNCHANGED otherVars /\ UNCHANGED scanVars

\* lines 235-240: the adjoint: ForwardProjectorByBinWrapper(self.range, self.domain,
\* self.volume, self.proj_data, projector, self) - six positional arguments, bound to
\* domain, range, volume, proj_data, _proj_info, projector - or the one given
Back_adjoint ==
    /\ Running("B", "adjoint")
    /\ IF Cur.a_adj = None
       THEN /\ objs' = Append(objs, NewWrapper("F"))
            /\ stack' = Append([stack EXCEPT ![Depth].pc = "wait"],
                               ForwardFrame(Len(objs) + 1, objs[Self].range, objs[Self].domain,
                                            objs[Self].vol, objs[Self].pd,
                                            Cur.l_proj, WrapperRef(Self), None, 0))
       ELSE /\ objs' = [objs EXCEPT ![Self].adjoint = Cur.a_adj]
            /\ Goto("ret")
    /\ UNCHANGED <<top, matrices, eprojs>>
    /\ UNCHANGED otherVars /\ UNCHANGED scanVars

\* faulty variant: the constructor that called does not store the new object
Return_not_stored ==
    /\ Depth > 0 /\ Cur.pc = "ret"
    /\ IF Depth > 1
       THEN /\ stack' = [SubSeq(stack, 1, Depth - 1) EXCEPT ![Depth - 1].pc = "ret"]
            /\ UNCHANGED <<objs, top, held>>
       ELSE /\ stack' = <<>>
            /\ top' = [top EXCEPT !.status = "returned", !.ret = WrapperRef(Self)]
            /\ held' = held \cup {Self}
            /\ UNCHANGED objs
    /\ UNCHANGED <<matrices, eprojs, nCalls, verbosity, volBuf, projBuf, calls>>
    /\ UNCHANGED scanVars

\* __init__ returns: to the constructor that called it, which stores the new object
\* in its own _adjoint (lines 140, 236) and returns in turn, or to the caller
Return ==
    /\ Depth > 0 /\ Cur.pc = "ret"
    /\ IF Depth > 1
       THEN /\ objs' = [objs EXCEPT ![stack[Depth - 1].self].adjoint = WrapperRef(Self)]
            /\ stack' = [SubSeq(stack, 1, Depth - 1) EXCEPT ![Depth - 1].pc = "ret"]
            /\ UNCHANGED <<top, held>>
       ELSE /\ stack' = <<>>
            /\ top' = [top EXCEPT !.status = "returned", !.ret = WrapperRef(Self)]
            /\ held' = held \cup {Self}
            /\ UNCHANGED objs
    /\ UNCHANGED <<matrices, eprojs, nCalls, verbosity, volBuf, projBuf, calls>>
    /\ UNCHANGED scanVars

(***************************************************************************)
(* The adjoint accessor                                                    *)
(***************************************************************************)
\* ForwardProjectorByBinWrapper.adjoint (lines 158-161) returns self._adjoint.
\* BackProjectorByBinWrapper defines no adjoint: the lookup ends in the base
\* class odl.Operator, whose adjoint property raises OpNotImplementedError.
NotImplemented == Ref("OpNotImplementedError", 0)
adjoint(o) ==
    IF objs[o].cls = "F" THEN objs[o].adjoint ELSE NotImplemented

\* the wrappers a caller can get at from the ones returned to it (attributes included)
Attr_adjoint(S) == S \cup {objs[i].adjoint.id : i \in {j \in S : IsWrapper(objs[j].adjoint)}}
Reachable == Attr_adjoint(Attr_adjoint(held))

(***************************************************************************)
(* Operator application: Operator.__call__ -> _call, on thread t           *)
(***************************************************************************)
MainThread == {1}

\* the engine kernels, abstracted to linear maps on residues: forward_project
\* overwrites the projection data, back_project adds into the volume
forward_project(vol) == (2 * vol) % Modulus
back_project(vol, proj) == (vol + 2 * proj) % Modulus

applyFrame == <<objs, matrices, eprojs, stack, top, held, nCalls>>
IsEngineProjector(v, kind) == v.t = "eproj" /\ eprojs[v.id].kind = kind

\* an apply is between its entry and its return on thread u
InApply(u) == calls[u].pc \notin {"idle", "returned", "raised"}

\* the caller applies operator o to array x; the applies already running on
\* other threads now overlap with this one
Apply(t) ==
    /\ Depth = 0 /\ ~InApply(t)
    /\ \E o \in Reachable, x \in Vals :
        calls' = [u \in Threads |->
                    IF u = t
                    THEN [ApplyIdle EXCEPT !.pc = IF objs[o].cls = "F" THEN "fill" ELSE "enter",
                                           !.o = o, !.x = x, !.v0 = verbosity,
                                           !.overlap = \E v \in Threads \ {t} : InApply(v)]
                    ELSE IF InApply(u) THEN [calls[u] EXCEPT !.overlap = TRUE]
                    ELSE calls[u]]
    /\ UNCHANGED <<verbosity, volBuf, projBuf>>
    /\ UNCHANGED applyFrame /\ UNCHANGED scanVars

\* ForwardProjectorByBinWrapper._call line 149: self.volume.fill(volume.asarray().flat)
Forward_call_fill(t) ==
    /\ calls[t].pc = "fill"
    /\ volBuf' = [volBuf EXCEPT ![objs[calls[t].o].vol] = calls[t].x]
    /\ calls' = [calls EXCEPT ![t].pc = "enter"]
    /\ UNCHANGED <<verbosity, projBuf>>
    /\ UNCHANGED applyFrame /\ UNCHANGED scanVars

\* StirVerbosity.__enter__ (lines 49-51): what is saved and what is set
StirVerbosity_enter_old(current, requested) == current
StirVerbosity_enter_set(current, requested) == requested
\* faulty variant: __exit__ leaves the level as it is
StirVerbosity_exit_keep(current, old) == current

\* StirVerbosity.__exit__ (lines 53-54): what is set
StirVerbosity_exit_set(current, old) == old

\* with StirVerbosity(self.verbosity): __enter__ (lines 152 / 244)
StirVerbosity_enter(t) ==
    /\ calls[t].pc = "enter"
    /\ calls' = [calls EXCEPT ![t].old = StirVerbosity_enter_old(verbosity, objs[calls[t].o].verbosity),
                              ![t].pc = "args"]
    /\ verbosity' = StirVerbosity_enter_set(verbosity, objs[calls[t].o].verbosity)
    /\ UNCHANGED <<volBuf, projBuf>>
    /\ UNCHANGED applyFrame /\ UNCHANGED scanVars

\* lines 153 / 245: the arguments of call_with_stir_buffer are evaluated:
\* self.projector.forward_project, self.back_projector.back_project; an object
\* that has no such method raises AttributeError inside the with block
Call_args(t) ==
    /\ calls[t].pc = "args"
    /\ LET w == objs[calls[t].o]
           kind == IF w.cls = "F" THEN "fwd" ELSE "back" IN
       IF IsEngineProjector(w.projector, kind)
       THEN calls' = [calls EXCEPT ![t].pc = "bufin"]
       ELSE calls' = [calls EXCEPT ![t].pc = "exit",
                                   ![t].pending = Err("AttributeError", <<>>, <<>>)]
    /\ UNCHANGED <<verbosity, volBuf, projBuf>>
    /\ UNCHANGED applyFrame /\ UNCHANGED scanVars

\* faulty variant: the input buffer is not filled
Buffer_fill_in_skip(t) ==
    /\ calls[t].pc = "bufin"
    /\ calls' = [calls EXCEPT ![t].pc = IF objs[calls[t].o].cls = "F" THEN "engine" ELSE "bufout"]
    /\ UNCHANGED <<verbosity, volBuf, projBuf>>
    /\ UNCHANGED applyFrame /\ UNCHANGED scanVars

\* call_with_stir_buffer line 251: b_in.fill(v_in.asarray().flat)
Buffer_fill_in(t) ==
    /\ calls[t].pc = "bufin"
    /\ LET w == objs[calls[t].o] IN
       IF w.cls = "F"
       THEN /\ volBuf' = [volBuf EXCEPT ![w.vol] = calls[t].x]
            /\ calls' = [calls EXCEPT ![t].pc = "engine"]
            /\ UNCHANGED projBuf
       ELSE /\ projBuf' = [projBuf EXCEPT ![w.pd] = calls[t].x]
            /\ calls' = [calls EXCEPT ![t].pc = "bufout"]
            /\ UNCHANGED volBuf
    /\ UNCHANGED verbosity
    /\ UNCHANGED applyFrame /\ UNCHANGED scanVars

\* faulty variant: the output buffer is left as the last call left it
Buffer_fill_out_skip(t) ==
    /\ calls[t].pc = "bufout"
    /\ calls' = [calls EXCEPT ![t].pc = "engine"]
    /\ UNCHANGED <<verbosity, volBuf, projBuf>>
    /\ UNCHANGED applyFrame /\ UNCHANGED scanVars

\* call_with_stir_buffer lines 252-253: v_out (self.range.zero(), back only) into b_out
Buffer_fill_out(t) ==
    /\ calls[t].pc = "bufout"
    /\ volBuf' = [volBuf EXCEPT ![objs[calls[t].o].vol] = 0]
    /\ calls' = [calls EXCEPT ![t].pc = "engine"]
    /\ UNCHANGED <<verbosity, projBuf>>
    /\ UNCHANGED applyFrame /\ UNCHANGED scanVars

\* call_with_stir_buffer line 254: function(b_out, b_in), which the engine may fail
Engine_call(t) ==
    /\ calls[t].pc = "engine"
    /\ LET w == objs[calls[t].o] IN
       \E ok \in BOOLEAN :
        IF ok
        THEN /\ calls' = [calls EXCEPT ![t].pc = "read"]
             /\ IF w.cls = "F"
                THEN /\ projBuf' = [projBuf EXCEPT ![w.pd] = forward_project(volBuf[w.vol])]
                     /\ UNCHANGED volBuf
                ELSE /\ volBuf' = [volBuf EXCEPT ![w.vol] = back_project(volBuf[w.vol], projBuf[w.pd])]
                     /\ UNCHANGED projBuf
        ELSE /\ calls' = [calls EXCEPT ![t].pc = "exit",
                                       ![t].pending = Err("EngineError", <<>>, <<>>)]
             /\ UNCHANGED <<volBuf, projBuf>>
    /\ UNCHANGED verbosity
    /\ UNCHANGED applyFrame /\ UNCHANGED scanVars

\* call_with_stir_buffer line 255: return stirextra.to_numpy(b_out)
Buffer_read(t) ==
    /\ calls[t].pc = "read"
    /\ LET w == objs[calls[t].o] IN
       calls' = [calls EXCEPT ![t].res = IF w.cls = "F" THEN projBuf[w.pd] ELSE volBuf[w.vol],
                              ![t].pc = "exit"]
    /\ UNCHANGED <<verbosity, volBuf, projBuf>>
    /\ UNCHANGED applyFrame /\ UNCHANGED scanVars

\* the with block is left, normally or by an exception: __exit__ (lines 53-54)
StirVerbosity_exit(t) ==
    /\ calls[t].pc = "exit"
    /\ verbosity' = StirVerbosity_exit_set(verbosity, calls[t].old)
    /\ IF calls[t].pending = NoErr
       THEN calls' = [calls EXCEPT ![t].pc = "out", ![t].old = -1]
       ELSE calls' = [calls EXCEPT ![t].pc = "raised", ![t].err = calls[t].pending,
                                   ![t].pending = NoErr, ![t].old = -1]
    /\ UNCHANGED <<volBuf, projBuf>>
    /\ UNCHANGED applyFrame /\ UNCHANGED scanVars

\* lines 156 / 248: out[:] = res, and the apply returns
Call_out(t) ==
    /\ calls[t].pc = "out"
    /\ calls' = [calls EXCEPT ![t].ret = calls[t].res, ![t].res = -1, ![t].pc = "returned"]
    /\ UNCHANGED <<verbosity, volBuf, projBuf>>
    /\ UNCHANGED applyFrame /\ UNCHANGED scanVars

ApplyStep(t) ==
    \/ Apply(t)
    \/ Forward_call_fill(t)
    \/ StirVerbosity_enter(t)
    \/ Call_args(t)
    \/ Buffer_fill_in(t)
    \/ Buffer_fill_out(t)
    \/ Engine_call(t)
    \/ Buffer_read(t)
    \/ StirVerbosity_exit(t)
    \/ Call_out(t)

(***************************************************************************)
(* scanner/scanner.py: the Scanner object and the STIR geometry            *)
(***************************************************************************)
\* an optional attribute: <<>> is None, <<v>> is the value v
NoneVal == <<>>
Some(v) == <<v>>
IsNone(x) == x = <<>>
Val(x) == x[1]

\* np.int32(x): a value of the 32-bit range is kept (the integers of the model
\* checker are 32-bit themselves; every count of a run is far inside the range)
np_int32(x) == x

\* class mCT(Scanner): lengths in hundredths of a millimetre; the two bin counts
\* are the class attributes of Scanner (None)
mCT ==
    [num_rings |-> 8, num_dets_per_ring |-> 112, det_radius |-> 5750,
     average_depth_of_inter |-> 700, ring_spacing |-> 625, voxel_size_xy |-> 165,
     axial_crystals_per_block |-> 8, trans_crystals_per_block |-> 7,
     axials_blocks_per_bucket |-> 1, trans_blocks_per_bucket |-> 16,
     axial_crystals_per_singles_unit |-> 8, trans_crystals_per_singles_unit |-> 0,
     num_detector_layers |-> 1, intrinsic_tilt |-> 0,
     max_num_non_arc_cor_bins |-> NoneVal, default_non_arc_cor_bins |-> NoneVal]

\* stir.Scanner.get_scanner_from_name(''): the engine's unknown scanner, nothing set
BlankScanner ==
    [num_rings |-> 0, num_detectors_per_ring |-> 0, default_bin_size |-> 0,
     default_num_arccorrected_bins |-> 0, default_intrinsic_tilt |-> 0,
     inner_ring_radius |-> 0, ring_spacing |-> 0, average_depth_of_interaction |-> 0,
     max_num_non_arccorrected_bins |-> 0,
     num_axial_blocks_per_bucket |-> 0, num_transaxial_blocks_per_bucket |-> 0,
     num_axial_crystals_per_block |-> 0, num_transaxial_crystals_per_block |-> 0,
     num_axial_crystals_per_singles_unit |-> 0, num_transaxial_crystals_per_singles_unit |-> 0,
     num_detector_layers |-> 0]

\* the engine's consistency predicate: the block / bucket products divide the ring
\* and per-ring detector counts, radius and spacing are positive
check_consistency(sc) ==
    /\ sc.num_rings > 0 /\ sc.num_detectors_per_ring > 0
    /\ sc.inner_ring_radius > 0 /\ sc.ring_spacing > 0
    /\ sc.num_transaxial_crystals_per_block * sc.num_transaxial_blocks_per_bucket > 0
    /\ sc.num_detectors_per_ring
         % (sc.num_transaxial_crystals_per_block * sc.num_transaxial_blocks_per_bucket) = 0
    /\ sc.num_axial_crystals_per_block * sc.num_axial_blocks_per_bucket > 0
    /\ sc.num_rings % (sc.num_axial_crystals_per_block * sc.num_axial_blocks_per_bucket) = 0

\* _check_consistency (lines 97-98)
CheckConsistency(sc) == check_consistency(sc) = TRUE

\* lines 63-89: the two defaults, then the sixteen setters on a blank scanner
PopulatedScanner(a) ==
    LET max_bins == IF IsNone(a.max_num_non_arc_cor_bins)
                    THEN a.num_dets_per_ring \div 2
                    ELSE Val(a.max_num_non_arc_cor_bins)
        default_bins == IF IsNone(a.default_non_arc_cor_bins)
                        THEN max_bins
                        ELSE Val(a.default_non_arc_cor_bins)
    IN [BlankScanner EXCEPT
          !.num_rings = np_int32(a.num_rings),
          !.num_detectors_per_ring = np_int32(a.num_dets_per_ring),
          !.default_bin_size = a.voxel_size_xy,
          !.default_num_arccorrected_bins = np_int32(default_bins),
          !.default_intrinsic_tilt = a.intrinsic_tilt,
          !.inner_ring_radius = a.det_radius,
          !.ring_spacing = a.ring_spacing,
          !.average_depth_of_interaction = a.average_depth_of_inter,
          !.max_num_non_arccorrected_bins = np_int32(max_bins),
          !.num_axial_blocks_per_bucket = np_int32(a.axials_blocks_per_bucket),
          !.num_transaxial_blocks_per_bucket = np_int32(a.trans_blocks_per_bucket),
          !.num_axial_crystals_per_block = np_int32(a.axial_crystals_per_block),
          !.num_transaxial_crystals_per_block = np_int32(a.trans_crystals_per_block),
          !.num_axial_crystals_per_singles_unit = np_int32(a.axial_crystals_per_singles_unit),
          !.num_transaxial_crystals_per_singles_unit = np_int32(a.trans_crystals_per_singles_unit),
          !.num_detector_layers = np_int32(a.num_detector_layers)]

Raised(type) == [status |-> "raised", err |-> type, handle |-> BlankScanner]
Returned(h) == [status |-> "ok", err |-> "none", handle |-> h]

\* faulty variant: the scanner is returned whatever the check says
stir_get_STIR_geometry_unchecked(a) == Returned(PopulatedScanner(a))

\* stir_get_STIR_geometry (lines 52-94): the scanner, or TypeError
stir_get_STIR_geometry(a) ==
    LET sc == PopulatedScanner(a) IN
    IF CheckConsistency(sc) THEN Returned(sc) ELSE Raised("TypeError")

\* Scanner.get_stir_scanner (lines 105-126): the attributes of self, in order
get_stir_scanner(self) == stir_get_STIR_geometry(self)

(***************************************************************************)
(* The engine's projection-data geometry ProjDataInfoCTI(scanner, span,    *)
(* max_delta, num_views, num_tangential_poss, arc_corrected), odd span     *)
(***************************************************************************)
\* the number of the last segment whose ring differences all are <= max_delta:
\* segment 0 covers -(span-1)/2 .. (span-1)/2, each further one the next span
RECURSIVE LastSegment(_, _, _, _)
LastSegment(seg, rdmax, span, max_delta) ==
    IF rdmax < max_delta
    THEN LastSegment(seg + 1, rdmax + span, span, max_delta)
    ELSE IF rdmax > max_delta THEN seg - 1 ELSE seg

\* smallest ring difference of segment i >= 1
MinRingDiff(i, span) == (span - 1) \div 2 + 1 + (i - 1) * span

Abs(i) == IF i < 0 THEN -i ELSE i

\* axial positions of a segment: span 1 has one per ring pair of that difference,
\* a larger span merges ring differences, on a grid of half ring spacing
NumAxialPoss(seg, span, num_rings) ==
    IF span = 1 THEN num_rings - Abs(seg)
    ELSE IF seg = 0 THEN 2 * num_rings - 1
    ELSE 2 * num_rings - 1 - 2 * MinRingDiff(Abs(seg), span)

NoGeometry ==
    [span |-> 0, max_delta |-> 0, num_rings |-> 0, num_views |-> 0,
     num_tangential_poss |-> 0, arc_corrected |-> FALSE,
     min_segment_num |-> 0, max_segment_num |-> -1,
     min_axial_pos_num |-> [g \in {} |-> 0], max_axial_pos_num |-> [g \in {} |-> 0]]

GeometryArgsValid(num_rings, span, max_delta) ==
    /\ span >= 1 /\ span <= 2 * num_rings - 1
    /\ max_delta <= num_rings - 1
    /\ max_delta >= (span - 1) \div 2

ProjDataInfoCTI(sc, span, max_delta, num_views, num_tangential_poss, arc_corrected) ==
    LET last == LastSegment(0, (span - 1) \div 2, span, max_delta) IN
    [span |-> span, max_delta |-> max_delta, num_rings |-> sc.num_rings,
     num_views |-> num_views, num_tangential_poss |-> num_tangential_poss,
     arc_corrected |-> arc_corrected,
     min_segment_num |-> -last, max_segment_num |-> last,
     min_axial_pos_num |-> [g \in -last .. last |-> 0],
     max_axial_pos_num |-> [g \in -last .. last |-> NumAxialPoss(g, span, sc.num_rings) - 1]]

RECURSIVE SumTo(_, _, _)
SumTo(f, lo, hi) == IF hi < lo THEN 0 ELSE f[hi] + SumTo(f, lo, hi - 1)

\* ProjDataInfo.get_num_sinograms(): the axial positions of all segments
get_num_sinograms(g) ==
    SumTo([k \in g.min_segment_num .. g.max_segment_num |->
               g.max_axial_pos_num[k] - g.min_axial_pos_num[k] + 1],
          g.min_segment_num, g.max_segment_num)

(***************************************************************************)
(* scanner/compression.py: the Compression session                         *)
(***************************************************************************)
NoCompression ==
    [made |-> FALSE, span_num |-> 0, max_num_segments |-> NoneVal,
     num_of_views |-> NoneVal, num_non_arccor_bins |-> NoneVal,
     data_arc_corrected |-> FALSE]

\* Compression.__init__ (lines 8-44)
Compression_init(sc) ==
    [made |-> TRUE, span_num |-> 1, max_num_segments |-> NoneVal,
     num_of_views |-> Some(sc.num_dets_per_ring \div 2),
     num_non_arccor_bins |-> Some(sc.num_dets_per_ring \div 2),
     data_arc_corrected |-> FALSE]

\* get_default_num_tangential (lines 120-125): a scanner attribute, which may be None
get_default_num_tangential(c, sc) ==
    IF c.data_arc_corrected THEN sc.default_non_arc_cor_bins
    ELSE sc.max_num_non_arc_cor_bins

\* get_num_tangential (lines 127-132)
get_num_tangential(c, sc) ==
    IF IsNone(c.num_non_arccor_bins) THEN get_default_num_tangential(c, sc)
    ELSE c.num_non_arccor_bins

\* get_default_max_diff_ring (lines 134-135)
get_default_max_diff_ring(sc) == sc.num_rings - 1

\* faulty variant: the test is on truth, so 0 counts as not set
get_max_ring_diff_falsy(c, sc) ==
    IF IsNone(c.max_num_segments) \/ Val(c.max_num_segments) = 0
    THEN get_default_max_diff_ring(sc)
    ELSE Val(c.max_num_segments)

\* get_max_ring_diff (lines 137-142)
get_max_ring_diff(c, sc) ==
    IF IsNone(c.max_num_segments) THEN get_default_max_diff_ring(sc)
    ELSE Val(c.max_num_segments)

NoResult ==
    [op |-> "none", status |-> "none", err |-> "none", scan |-> BlankScanner,
     geom |-> NoGeometry, max_delta |-> 0, info |-> <<>>, n |-> 0, seg |-> 0, axial |-> 0]

\* get_stir_proj_data_info (lines 144-153): the scanner handle, then the engine's
\* geometry from span_num, get_max_ring_diff(), num_of_views, get_num_tangential()
\* and data_arc_corrected; an exception of either call leaves the method
get_stir_proj_data_info(c, sc) ==
    LET st == get_stir_scanner(sc)
        max_delta == get_max_ring_diff(c, sc)
        tang == get_num_tangential(c, sc)
    IN IF st.status = "raised"
       THEN [NoResult EXCEPT !.status = "raised", !.err = st.err]
       ELSE IF IsNone(c.num_of_views) \/ IsNone(tang)
       THEN [NoResult EXCEPT !.status = "raised", !.err = "TypeError",
                             !.scan = st.handle, !.max_delta = max_delta]
       ELSE IF ~GeometryArgsValid(st.handle.num_rings, c.span_num, max_delta)
       THEN [NoResult EXCEPT !.status = "raised", !.err = "EngineError",
                             !.scan = st.handle, !.max_delta = max_delta]
       ELSE [NoResult EXCEPT !.status = "ok", !.scan = st.handle, !.max_delta = max_delta,
                             !.geom = ProjDataInfoCTI(st.handle, c.span_num, max_delta,
                                                      Val(c.num_of_views), Val(tang),
                                                      c.data_arc_corrected)]

\* faulty variant: the range starts at segment 0
Segments_from_zero(g) == [k \in 1 .. (g.max_segment_num + 1) |-> k - 1]

\* _get_sinogram_info line 99: list(range(min_segment_num, max_segment_num + 1))
Segments(g) == [k \in 1 .. (g.max_segment_num + 1 - g.min_segment_num) |->
                    g.min_segment_num + k - 1]

\* faulty variant: the + 1 is left out
SegmentSize_no_plus_one(g, seg) == g.max_axial_pos_num[seg] - g.min_axial_pos_num[seg]

\* _get_sinogram_info line 100: get_max_axial_pos_num(s) + 1 - get_min_axial_pos_num(s)
SegmentSize(g, seg) == g.max_axial_pos_num[seg] + 1 - g.min_axial_pos_num[seg]

\* _get_sinogram_info (lines 97-101)
get_sinogram_info(c, sc) ==
    LET r == get_stir_proj_data_info(c, sc) IN
    IF r.status = "raised" THEN r
    ELSE LET segments == Segments(r.geom)
             segment_sizes == [k \in DOMAIN segments |-> SegmentSize(r.geom, segments[k])]
         IN [r EXCEPT !.info = [k \in DOMAIN segments |-> <<segments[k], segment_sizes[k]>>]]

\* sinogram.get_offset(segment, axial, info): the sizes of the segments before
\* `segment` in info, plus the axial position
RECURSIVE sinogram_get_offset(_, _, _)
sinogram_get_offset(segment, axial, info) ==
    IF info = <<>> \/ Head(info)[1] = segment THEN axial
    ELSE Head(info)[2] + sinogram_get_offset(segment, axial, Tail(info))

\* Compression.get_offset (lines 103-106)
get_offset(c, sc, segment, axial) ==
    LET r == get_sinogram_info(c, sc) IN
    IF r.status = "raised" THEN r
    ELSE [r EXCEPT !.seg = segment, !.axial = axial,
                   !.n = sinogram_get_offset(segment, axial, r.info)]

(***************************************************************************)
(* Scanner and compression operations, as the caller makes them            *)
(***************************************************************************)
Spans == {2 * h + 1 : h \in 0 .. MaxSpanHalf}
DetChoices == {112, 224}
ViewChoices == {Some(28)}
BinChoices == {NoneVal, Some(28)}
SegmentChoices == {NoneVal} \cup {Some(m) : m \in 0 .. MaxRings}

\* the scanners of a run: mCT, mCT with fewer rings (one axial crystal per block),
\* one whose transaxial blocks do not divide the ring, one with its bin counts set
ScannerChoices ==
    {mCT}
    \cup {[mCT EXCEPT !.num_rings = r, !.axial_crystals_per_block = 1,
                      !.axial_crystals_per_singles_unit = 1] : r \in 1 .. MaxRings}
    \cup {[mCT EXCEPT !.trans_crystals_per_block = 5]}
    \cup {[mCT EXCEPT !.num_rings = 2, !.axial_crystals_per_block = 1,
                      !.axial_crystals_per_singles_unit = 1,
                      !.max_num_non_arc_cor_bins = Some(60),
                      !.default_non_arc_cor_bins = Some(40)]}

\* compression = Compression(scanner)
NewCompression ==
    /\ out = NoResult
    /\ comp' = Compression_init(scanner)
    /\ out' = NoResult
    /\ UNCHANGED scanner /\ UNCHANGED pairVars

\* the caller sets an attribute of the session, or of the scanner
Set_span_num ==
    /\ comp.made /\ out = NoResult
    /\ \E sp \in Spans : comp' = [comp EXCEPT !.span_num = sp]
    /\ out' = NoResult
    /\ UNCHANGED scanner /\ UNCHANGED pairVars

Set_max_num_segments ==
    /\ comp.made /\ out = NoResult
    /\ \E m \in SegmentChoices : comp' = [comp EXCEPT !.max_num_segments = m]
    /\ out' = NoResult
    /\ UNCHANGED scanner /\ UNCHANGED pairVars

Set_num_of_views ==
    /\ comp.made /\ out = NoResult
    /\ \E v \in ViewChoices : comp' = [comp EXCEPT !.num_of_views = v]
    /\ out' = NoResult
    /\ UNCHANGED scanner /\ UNCHANGED pairVars

Set_num_non_arccor_bins ==
    /\ comp.made /\ out = NoResult
    /\ \E b \in BinChoices : comp' = [comp EXCEPT !.num_non_arccor_bins = b]
    /\ out' = NoResult
    /\ UNCHANGED scanner /\ UNCHANGED pairVars

Set_data_arc_corrected ==
    /\ comp.made /\ out = NoResult
    /\ \E a \in BOOLEAN : comp' = [comp EXCEPT !.data_arc_corrected = a]
    /\ out' = NoResult
    /\ UNCHANGED scanner /\ UNCHANGED pairVars

Set_num_dets_per_ring ==
    /\ out = NoResult
    /\ \E d \in DetChoices : scanner' = [scanner EXCEPT !.num_dets_per_ring = d]
    /\ out' = NoResult
    /\ UNCHANGED comp /\ UNCHANGED pairVars

\* scanner.get_stir_scanner()
Call_get_stir_scanner ==
    /\ out = NoResult
    /\ LET r == get_stir_scanner(scanner) IN
       out' = [NoResult EXCEPT !.op = "get_stir_scanner", !.status = r.status,
                               !.err = r.err, !.scan = r.handle]
    /\ UNCHANGED <<scanner, comp>> /\ UNCHANGED pairVars

\* compression.get_max_ring_diff()
Call_get_max_ring_diff ==
    /\ comp.made /\ out = NoResult
    /\ out' = [NoResult EXCEPT !.op = "get_max_ring_diff", !.status = "ok",
                               !.n = get_max_ring_diff(comp, scanner)]
    /\ UNCHANGED <<scanner, comp>> /\ UNCHANGED pairVars

\* compression.get_stir_proj_data_info()
Call_get_stir_proj_data_info ==
    /\ comp.made /\ out = NoResult
    /\ out' = [get_stir_proj_data_info(comp, scanner) EXCEPT !.op = "get_stir_proj_data_info"]
    /\ UNCHANGED <<scanner, comp>> /\ UNCHANGED pairVars

\* compression._get_sinogram_info()
Call_get_sinogram_info ==
    /\ comp.made /\ out = NoResult
    /\ out' = [get_sinogram_info(comp, scanner) EXCEPT !.op = "_get_sinogram_info"]
    /\ UNCHANGED <<scanner, comp>> /\ UNCHANGED pairVars

\* compression.get_offset(segment, axial), for a segment of the geometry and an
\* axial position of that segment
Call_get_offset ==
    /\ comp.made /\ out = NoResult
    /\ LET r == get_sinogram_info(comp, scanner) IN
       IF r.status = "raised"
       THEN out' = [r EXCEPT !.op = "get_offset"]
       ELSE \E k \in DOMAIN r.info : \E axial \in 0 .. r.info[k][2] - 1 :
              out' = [get_offset(comp, scanner, r.info[k][1], axial) EXCEPT !.op = "get_offset"]
    /\ UNCHANGED <<scanner, comp>> /\ UNCHANGED pairVars

\* the caller is done with the result of the last operation
Discard ==
    /\ out /= NoResult
    /\ out' = NoResult
    /\ UNCHANGED <<scanner, comp>> /\ UNCHANGED pairVars

NextScan ==
    \/ NewCompression
    \/ Set_span_num
    \/ Set_max_num_segments
    \/ Set_num_of_views
    \/ Set_num_non_arccor_bins
    \/ Set_data_arc_corrected
    \/ Set_num_dets_per_ring
    \/ Call_get_stir_scanner
    \/ Call_get_max_ring_diff
    \/ Call_get_stir_proj_data_info
    \/ Call_get_sinogram_info
    \/ Call_get_offset
    \/ Discard

InitScan ==
    /\ scanner \in ScannerChoices
    /\ comp = NoCompression
    /\ out = NoResult

(***************************************************************************)
(* The projector-pair specification (single-threaded caller)               *)
(***************************************************************************)
\* engine objects the caller built beforehand, to pass as projector / back_projector
UserMatrices == <<NewMatrix(TRUE, TRUE)>>
UserProjectors == <<NewEngineProjector("fwd", 1, TRUE), NewEngineProjector("back", 1, TRUE)>>

NoTop == [cls |-> "none", domain |-> <<>>, range |-> <<>>, vol |-> 0, pd |-> 0,
          projGiven |-> FALSE, adjGiven |-> FALSE,
          status |-> "none", ret |-> None, err |-> NoErr, self |-> 0,
          obj0 |-> 0, mat0 |-> 0, proj0 |-> 0, nMat |-> 0, nProj |-> 0]

InitPair ==
    /\ objs = <<>>
    /\ matrices = UserMatrices
    /\ eprojs = UserProjectors
    /\ stack = <<>>
    /\ top = NoTop
    /\ held = {}
    /\ nCalls = 0
    /\ verbosity \in Verbosities
    /\ volBuf = [v \in VolIds |-> 0]
    /\ projBuf = [p \in ProjIds |-> 0]
    /\ calls = [t \in Threads |-> ApplyIdle]

\* the projector pair leaves the scanner state alone, and the other way round
ScanIdle ==
    /\ scanner = mCT
    /\ comp = NoCompression
    /\ out = NoResult

PairIdle ==
    /\ InitPair
    /\ verbosity = 0

InitS == InitScan /\ PairIdle

ConstructorStep ==
    \/ CallForward
    \/ CallBack
    \/ Forward_check_domain
    \/ Forward_check_range
    \/ Forward_super
    \/ Forward_matrix
    \/ Forward_projector
    \/ Forward_back_projector
    \/ Forward_given
    \/ Forward_adjoint
    \/ Back_check_range
    \/ Back_check_domain
    \/ Back_super
    \/ Back_matrix
    \/ Back_projector
    \/ Back_given
    \/ Back_adjoint
    \/ Return

Next ==
    \/ ConstructorStep
    \/ \E t \in MainThread : ApplyStep(t)

Init == InitPair /\ ScanIdle
Spec == Init /\ [][Next]_vars

SpecScan == InitS /\ [][NextScan]_vars

\* the projector pair used from both threads, with no lock around the applies
NextThreads ==
    \/ ConstructorStep
    \/ \E t \in Threads : ApplyStep(t)

SpecThreads == Init /\ [][NextThreads]_vars


(***************************************************************************)
(* Properties of the projector pair (specification Spec)                   *)
(***************************************************************************)
Finished == top.status \in {"returned", "raised"}
BuiltFromForward == top.cls = "F" /\ ~top.adjGiven /\ top.status = "returned"
BuiltFromBack == top.cls = "B" /\ ~top.adjGiven /\ top.status = "returned"

\* C1: for a pair obtained by constructing the forward operator with no adjoint
\* supplied, the public accessor gives forward.adjoint is back and back.adjoint is
\* forward (so forward.adjoint.adjoint is forward), right after construction and
\* after any applies.
C1_AdjointAccessorSymmetric ==
    BuiltFromForward =>
        LET f == top.ret.id
            b == adjoint(f)
        IN /\ IsWrapper(b)
           /\ objs[b.id].cls = "B"
           /\ adjoint(b.id) = WrapperRef(f)

\* the shapes of the top-level call disagree with the handles
TopShapeMismatch ==
    /\ top.cls \in {"F", "B"}
    /\ IF top.cls = "F"
       THEN top.domain /= VolShape(top.vol) \/ top.range /= ProjShape(top.pd)
       ELSE top.range /= VolShape(top.vol) \/ top.domain /= ProjShape(top.pd)

\* C2: a constructor called with a domain / range shape that differs from the
\* volume / projection-data handle's shape fails with the shape-mismatch error
\* (ValueError), and no system matrix and no engine projector has been created
\* or set up during the call, up to and including the moment of the error.
C2_ShapeMismatchBeforeEngine ==
    TopShapeMismatch =>
        /\ top.nMat = 0 /\ top.nProj = 0
        /\ Len(matrices) = top.mat0 /\ Len(eprojs) = top.proj0
        /\ top.status /= "returned"
        /\ top.status = "raised" => top.err.type = "ValueError"

C2_Witness ==
    /\ top.cls = "F" /\ top.status = "raised" /\ top.err.type = "ValueError"
    /\ top.domain = <<4, 4, 4>> /\ VolShape(top.vol) = <<5, 4, 4>>

\* C3: a forward operator constructed with no pre-built engine projector creates
\* exactly one system matrix during the whole construction; its engine forward
\* projector is built on that matrix and, when it builds its own back operator,
\* so is that operator's engine back projector (the back operator creates none).
C3_OneSharedMatrix ==
    (top.cls = "F" /\ ~top.projGiven) =>
        /\ top.nMat <= 1
        /\ top.status = "returned" =>
            LET f == objs[top.ret.id] IN
            /\ top.nMat = 1
            /\ f.proj_matrix = Ref("matrix", top.mat0 + 1)
            /\ IsEngineProjector(f.projector, "fwd")
            /\ eprojs[f.projector.id].matrix = f.proj_matrix.id
            /\ ~top.adjGiven =>
                 /\ IsWrapper(f.adjoint)
                 /\ IsEngineProjector(objs[f.adjoint.id].projector, "back")
                 /\ eprojs[objs[f.adjoint.id].projector.id].matrix = f.proj_matrix.id

C3_Witness ==
    /\ BuiltFromForward /\ ~top.projGiven
    /\ top.nMat = 1 /\ top.nProj = 2

InWith(pc) == pc \in {"args", "bufin", "bufout", "engine", "read", "exit"}

\* C4: in a single-threaded run, while an apply is inside its with block (the
\* engine call in particular) the process-wide verbosity is the level the operator
\* asked for; once the apply has returned or raised, it is the level it had just
\* before that apply.
C4_VerbosityScoped ==
    \A t \in MainThread :
        /\ calls[t].pc \in {"args", "bufin", "bufout", "engine", "read"}
              => verbosity = objs[calls[t].o].verbosity
        /\ calls[t].pc \in {"out", "returned", "raised"} => verbosity = calls[t].v0

C4_Witness ==
    \E t \in MainThread :
        /\ calls[t].pc = "raised" /\ calls[t].err.type = "EngineError"
        /\ calls[t].v0 /= objs[calls[t].o].verbosity

\* the state of the pair under construction, read off the object of the
\* top-level call: 0 Uninitialized, 1 ShapeValidated, 2 EngineBuilt, 3 Ready;
\* -1 when the construction failed
Phase ==
    CASE top.status = "none" -> 0
      [] top.status = "raised" -> -1
      [] top.status = "returned" -> 3
      [] OTHER -> IF objs[top.self].projector /= Unset THEN 2
                  ELSE IF objs[top.self].inited THEN 1
                  ELSE 0

FullyWired(w) ==
    /\ objs[w].inited
    /\ objs[w].projector /= Unset
    /\ IsWrapper(objs[w].adjoint)
    /\ objs[objs[w].adjoint.id].adjoint /= Unset

C5_Inv ==
    \* the engine is built for validated shapes only
    /\ (top.nMat > 0 \/ top.nProj > 0 \/ Phase >= 1) => ~TopShapeMismatch
    /\ Phase = 2 => objs[top.self].inited
    \* a failed construction hands nothing to the caller
    /\ top.status = "raised" => top.ret = None /\ \A w \in held : w <= top.obj0
    /\ top.status = "running" => \A w \in held : w <= top.obj0
    \* whatever the caller can get at is completely built and wired
    /\ \A w \in Reachable : FullyWired(w)

C5_Step ==
    nCalls' = nCalls =>
        /\ Phase' = -1 \/ Phase' = Phase \/ Phase' = Phase + 1
        /\ Phase = 3 => Phase' = 3 /\ objs' = objs /\ matrices' = matrices
                        /\ eprojs' = eprojs /\ top' = top /\ held' = held

C10_NoRecursion ==
    /\ Depth <= 2
    /\ Len(objs) - top.obj0 <= 2
    /\ Depth >= 2 => stack[2].a_adj = WrapperRef(stack[1].self)


(***************************************************************************)
(* Properties of scanner geometry and compression (specification SpecScan) *)
(***************************************************************************)
\* the explicit parameters, defaults resolved, as the handle must carry them
ExpectedCounts(sc, h) ==
    /\ h.num_rings = sc.num_rings
    /\ h.num_detectors_per_ring = sc.num_dets_per_ring
    /\ h.max_num_non_arccorrected_bins =
          (IF IsNone(sc.max_num_non_arc_cor_bins) THEN sc.num_dets_per_ring \div 2
           ELSE Val(sc.max_num_non_arc_cor_bins))
    /\ h.default_num_arccorrected_bins =
          (IF ~IsNone(sc.default_non_arc_cor_bins) THEN Val(sc.default_non_arc_cor_bins)
           ELSE h.max_num_non_arccorrected_bins)
    /\ h.num_axial_crystals_per_block = sc.axial_crystals_per_block
    /\ h.num_transaxial_crystals_per_block = sc.trans_crystals_per_block
    /\ h.num_axial_blocks_per_bucket = sc.axials_blocks_per_bucket
    /\ h.num_transaxial_blocks_per_bucket = sc.trans_blocks_per_bucket
    /\ h.num_axial_crystals_per_singles_unit = sc.axial_crystals_per_singles_unit
    /\ h.num_transaxial_crystals_per_singles_unit = sc.trans_crystals_per_singles_unit
    /\ h.num_detector_layers = sc.num_detector_layers
    /\ h.inner_ring_radius = sc.det_radius
    /\ h.ring_spacing = sc.ring_spacing

\* the predicate on the parameters themselves
ParametersConsistent(sc) ==
    /\ sc.num_rings > 0 /\ sc.num_dets_per_ring > 0
    /\ sc.det_radius > 0 /\ sc.ring_spacing > 0
    /\ sc.trans_crystals_per_block * sc.trans_blocks_per_bucket > 0
    /\ sc.num_dets_per_ring % (sc.trans_crystals_per_block * sc.trans_blocks_per_bucket) = 0
    /\ sc.axial_crystals_per_block * sc.axials_blocks_per_bucket > 0
    /\ sc.num_rings % (sc.axial_crystals_per_block * sc.axials_blocks_per_bucket) = 0

\* C6: scanner.get_stir_scanner() returns a handle only if the consistency
\* predicate holds on the completely populated parameter set, and that handle
\* carries every parameter; if the predicate fails the call raises the
\* geometry error (TypeError) and hands out no handle.
C6_GeometryAtomic ==
    out.op = "get_stir_scanner" =>
        /\ out.status \in {"ok", "raised"}
        /\ out.status = "ok" <=> ParametersConsistent(scanner)
        /\ out.status = "ok" => check_consistency(out.scan) /\ ExpectedCounts(scanner, out.scan)
        /\ out.status = "raised" => out.err = "TypeError" /\ out.scan = BlankScanner

C6_Witness ==
    /\ out.op = "get_stir_scanner" /\ out.status = "raised"
    /\ scanner.num_dets_per_ring = 112 /\ scanner.trans_crystals_per_block = 5

RECURSIVE SumSizes(_)
SumSizes(info) == IF info = <<>> THEN 0 ELSE Head(info)[2] + SumSizes(Tail(info))

\* C7: the list of _get_sinogram_info holds every segment from the minimum to the
\* maximum once, in increasing order; its sizes sum to get_num_sinograms() of the
\* same geometry; a segment and its negative have the same size.
C7_SinogramInfo ==
    (out.op = "_get_sinogram_info" /\ out.status = "ok") =>
        LET info == out.info
            g == out.geom
        IN /\ Len(info) = g.max_segment_num - g.min_segment_num + 1
           /\ \A k \in DOMAIN info : info[k][1] = g.min_segment_num + k - 1
           /\ SumSizes(info) = get_num_sinograms(g)
           /\ \A k \in DOMAIN info :
                \E j \in DOMAIN info : info[j][1] = -info[k][1] /\ info[j][2] = info[k][2]

C7_Witness ==
    /\ out.op = "_get_sinogram_info" /\ out.status = "ok"
    /\ comp.span_num = 3 /\ Len(out.info) = 3 /\ out.info[1][2] < out.info[2][2]

EffectiveMaxRingDiff ==
    IF comp.max_num_segments = NoneVal THEN scanner.num_rings - 1
    ELSE comp.max_num_segments[1]

ValidPairs(info) ==
    UNION {{<<info[k][1], a>> : a \in 0 .. info[k][2] - 1} : k \in DOMAIN info}
LexLess(p, q) == p[1] < q[1] \/ (p[1] = q[1] /\ p[2] < q[2])

\* C9: the flat offset (sizes of the segments before, plus the axial position) of
\* every valid (segment, axial) pair is strictly increasing in the lexicographic
\* order of the pairs and maps them one-to-one onto 0 .. get_num_sinograms() - 1.
C9_OffsetBijection ==
    (out.op = "get_offset" /\ out.status = "ok") =>
        LET info == out.info
            N == get_num_sinograms(out.geom)
            \* the graph of the offset over the valid pairs: <<pair, offset>>
            G == {<<p, sinogram_get_offset(p[1], p[2], info)>> : p \in ValidPairs(info)}
        IN /\ <<<<out.seg, out.axial>>, out.n>> \in G
           /\ \A x \in G, y \in G : LexLess(x[1], y[1]) => x[2] < y[2]
           /\ {x[2] : x \in G} = 0 .. N - 1

C9_Witness ==
    /\ out.op = "get_offset" /\ out.status = "ok"
    /\ comp.span_num = 3 /\ out.seg = 1 /\ out.axial = 2
    /\ out.n = out.info[1][2] + out.info[2][2] + 2


(***************************************************************************)
(* Properties of the shared buffers                                        *)
(***************************************************************************)
\* what the engine makes of input x alone: the forward projection of x, or the
\* back projection of x into a zero volume
ResultOf(o, x) ==
    IF objs[o].cls = "F" THEN forward_project(x) ELSE back_project(0, x)

\* C11: in a single-threaded run, whatever applies came before: when a forward
\* apply of x calls forward_project the volume buffer holds x; when a back apply
\* of y calls back_project the projection buffer holds y and the volume buffer
\* holds zeros; what is read back is the output buffer after the engine call and
\* what the caller gets is the engine's result for its own input alone.
C11_BuffersFresh ==
    \A t \in MainThread :
        LET c == calls[t]
            w == objs[c.o]
        IN /\ (c.pc = "engine" /\ w.cls = "F") => volBuf[w.vol] = c.x
           /\ (c.pc = "engine" /\ w.cls = "B") => projBuf[w.pd] = c.x /\ volBuf[w.vol] = 0
           /\ (c.pc = "exit" /\ c.pending = NoErr) =>
                 c.res = (IF w.cls = "F" THEN projBuf[w.pd] ELSE volBuf[w.vol])
           /\ c.pc = "returned" => c.ret = ResultOf(c.o, c.x)

\* a forward apply of 0 is at its engine call while the projection buffer still
\* holds the 1 an earlier back apply on the pair filled in
C11_Witness ==
    \E t \in MainThread :
        /\ calls[t].pc = "engine" /\ objs[calls[t].o].cls = "F"
        /\ calls[t].x = 0 /\ volBuf[objs[calls[t].o].vol] = 0
        /\ projBuf[objs[calls[t].o].pd] = 1


\* an apply has returned something else than the engine's result for its input
WrongResult(t) == calls[t].pc = "returned" /\ calls[t].ret /= ResultOf(calls[t].o, calls[t].x)

\* C12: two threads apply operators of one pair with no lock. An apply returns a
\* result that is not the one of its own input only if it ran while an apply of
\* the other thread was running (applies made one after the other never do); the
\* witness is the interleaving in which it happens.
C12_WrongOnlyWhenOverlapping ==
    \A t \in Threads : WrongResult(t) => calls[t].overlap

C12_Witness ==
    \E t \in Threads :
        /\ WrongResult(t) /\ calls[t].overlap
        /\ objs[calls[t].o].cls = "F" /\ calls[t].x = 0 /\ calls[t].ret /= 0


(***************************************************************************)
(* Properties of the defaults and of the wiring from the back operator     *)
(***************************************************************************)
\* neither num_of_views nor num_non_arccor_bins was assigned by the caller: the
\* values the caller assigns (ViewChoices, BinChoices) are none of those that
\* __init__ puts there
DefaultsNeverSet ==
    /\ comp.made
    /\ comp.num_of_views \notin ViewChoices
    /\ comp.num_non_arccor_bins \notin BinChoices

\* C13: when the caller set neither num_of_views nor the tangential-bin count,
\* the geometry is built with both equal to floor(num_dets_per_ring / 2) of the
\* scanner as it is at the build (56 and 56 for 112 detectors), also when
\* num_dets_per_ring was changed after the session was created.
C13_DefaultsLazy ==
    (out.op = "get_stir_proj_data_info" /\ out.status = "ok" /\ DefaultsNeverSet) =>
        /\ out.geom.num_views = scanner.num_dets_per_ring \div 2
        /\ out.geom.num_tangential_poss = scanner.num_dets_per_ring \div 2
        /\ scanner.num_dets_per_ring = 112 =>
              out.geom.num_views = 56 /\ out.geom.num_tangential_poss = 56

\* C14: a pair built from the back operator (no back projector, no adjoint) is
\* wired like one built from the forward operator: the forward operator it made
\* has that back operator as its adjoint, the forward operator's projector is an
\* engine forward projector, and the construction made exactly two wrappers.
C14_BackStartWiring ==
    (BuiltFromBack /\ ~top.projGiven) =>
        LET b == top.ret.id
            f == objs[b].adjoint
        IN /\ IsWrapper(f) /\ objs[f.id].cls = "F"
           /\ objs[f.id].adjoint = WrapperRef(b)
           /\ IsEngineProjector(objs[f.id].projector, "fwd")
           /\ Len(objs) - top.obj0 = 2

====
